---------------------------- MODULE Spec2Model ----------------------------
(***************************************************************************)
(* FairHire recruitment platform: the scoring function analyzeApplication  *)
(* and the request handlers that read and write the applications table     *)
(* (submission, AI ranking, status update, job update); and the upload and *)
(* ranking requests of server.js with rankCVs of utils/rank.js.            *)
(*                                                                         *)
(* Conventions.                                                            *)
(*  - A JavaScript string is a sequence of one-character strings; fixed    *)
(*    phrases of template literals are kept as one element.                *)
(*  - A nullable value is None (null / undefined / SQL NULL) or Some(v).   *)
(*  - Every await of a handler is a point where other requests may run, so *)
(*    a handler is cut into one action per database round trip.            *)
(***************************************************************************)
EXTENDS Integers, Sequences, FiniteSets, TLC

None == <<>>
Some(v) == <<v>>
IsSome(o) == o # <<>>
Val(o) == o[1]

----------------------------------------------------------------------------
(* Strings *)

LowerChar(c) ==
    CASE c = "A" -> "a" [] c = "B" -> "b" [] c = "C" -> "c" [] c = "D" -> "d"
      [] c = "E" -> "e" [] c = "F" -> "f" [] c = "G" -> "g" [] c = "H" -> "h"
      [] c = "I" -> "i" [] c = "J" -> "j" [] c = "K" -> "k" [] c = "L" -> "l"
      [] c = "M" -> "m" [] c = "N" -> "n" [] c = "O" -> "o" [] c = "P" -> "p"
      [] c = "Q" -> "q" [] c = "R" -> "r" [] c = "S" -> "s" [] c = "T" -> "t"
      [] c = "U" -> "u" [] c = "V" -> "v" [] c = "W" -> "w" [] c = "X" -> "x"
      [] c = "Y" -> "y" [] c = "Z" -> "z" [] OTHER -> c

\* String.prototype.toLowerCase
ToLowerCase(s) == [i \in 1..Len(s) |-> LowerChar(s[i])]

\* String.prototype.includes
Includes(hay, needle) ==
    \E i \in 0..(Len(hay) - Len(needle)) :
        SubSeq(hay, i + 1, i + Len(needle)) = needle

Digits == {"0", "1", "2", "3", "4", "5", "6", "7", "8", "9"}

DigitVal(c) ==
    CASE c = "0" -> 0 [] c = "1" -> 1 [] c = "2" -> 2 [] c = "3" -> 3
      [] c = "4" -> 4 [] c = "5" -> 5 [] c = "6" -> 6 [] c = "7" -> 7
      [] c = "8" -> 8 [] c = "9" -> 9

\* s.match(/(\d+)/): the leftmost maximal run of digits, None when there is none
MatchDigits(s) ==
    IF \A i \in 1..Len(s) : s[i] \notin Digits THEN None
    ELSE LET first == CHOOSE i \in 1..Len(s) :
                          s[i] \in Digits /\ \A j \in 1..(i - 1) : s[j] \notin Digits
             last  == CHOOSE k \in first..Len(s) :
                          /\ \A j \in first..k : s[j] \in Digits
                          /\ (k = Len(s) \/ s[k + 1] \notin Digits)
         IN  Some(SubSeq(s, first, last))

RECURSIVE ParseInt(_)
ParseInt(ds) ==
    IF ds = <<>> THEN 0
    ELSE 10 * ParseInt(SubSeq(ds, 1, Len(ds) - 1)) + DigitVal(ds[Len(ds)])

\* decimal rendering of a non-negative integer inside a template literal
RECURSIVE NumToStr(_)
NumToStr(n) ==
    LET d == <<"0", "1", "2", "3", "4", "5", "6", "7", "8", "9">>[(n % 10) + 1]
    IN  IF n < 10 THEN <<d>> ELSE NumToStr(n \div 10) \o <<d>>

\* Array.prototype.join
RECURSIVE Join(_, _)
Join(parts, sep) ==
    IF parts = <<>> THEN <<>>
    ELSE IF Len(parts) = 1 THEN parts[1]
    ELSE parts[1] \o sep \o Join(Tail(parts), sep)

\* Array.prototype.filter with a predicate given as the set of kept indices
RECURSIVE FilterSeq(_, _, _)
FilterSeq(s, keep, i) ==
    IF i > Len(s) THEN <<>>
    ELSE (IF i \in keep THEN <<s[i]>> ELSE <<>>) \o FilterSeq(s, keep, i + 1)

Min(a, b) == IF a < b THEN a ELSE b

----------------------------------------------------------------------------
(* Scoring: evaluateExperience and analyzeApplication *)

\* the two marks that open an evidence line: U+2713 and U+26A0 U+FE0F
CheckMark == "(check)"
WarnMark == "(warning)"

MaxExperiencePoints == 25
MaxSkillsPoints == 40
PointsPerSkill == 8
MasterPoints == 15
BachelorPoints == 10
MaxAchievementPoints == 20
PointsPerAchievement == 4

\* A variant whose tiers start above 6, 4 and 2 years.
evaluateExperienceStrict(cv) ==
    LET yearsMatch == IF IsSome(cv.experience) THEN MatchDigits(Val(cv.experience))
                      ELSE None
        years == IF IsSome(yearsMatch) THEN ParseInt(Val(yearsMatch)) ELSE 0
    IN  IF years > 6 THEN MaxExperiencePoints
        ELSE IF years > 4 THEN 20
        ELSE IF years > 2 THEN 15
        ELSE 10

\* evaluateExperience(cv, jobDescription); cv is not null here
evaluateExperience(cv) ==
    LET yearsMatch == IF IsSome(cv.experience) THEN MatchDigits(Val(cv.experience))
                      ELSE None
        years == IF IsSome(yearsMatch) THEN ParseInt(Val(yearsMatch)) ELSE 0
    IN  IF years >= 6 THEN MaxExperiencePoints
        ELSE IF years >= 4 THEN 20
        ELSE IF years >= 2 THEN 15
        ELSE 10

\* jobDescription.requirements || []
RequiredSkills(jobDescription) == jobDescription.requirements

\* cv.skills || []
ApplicantSkills(cv) == IF IsSome(cv.skills) THEN Val(cv.skills) ELSE <<>>

\* A variant of the filter that compares without toLowerCase.
MatchedSkillsCaseSensitive(cv, jobDescription) ==
    LET requiredSkills == RequiredSkills(jobDescription)
        applicantSkills == ApplicantSkills(cv)
        keep == {i \in 1..Len(requiredSkills) :
                    \E k \in 1..Len(applicantSkills) :
                        Includes(applicantSkills[k], Val(requiredSkills[i]))}
    IN  [i \in 1..Len(FilterSeq(requiredSkills, keep, 1)) |->
            Val(FilterSeq(requiredSkills, keep, 1)[i])]

\* requiredSkills.filter(req => applicantSkills.some(app =>
\*     app.toLowerCase().includes(req.toLowerCase())))
MatchedSkills(cv, jobDescription) ==
    LET requiredSkills == RequiredSkills(jobDescription)
        applicantSkills == ApplicantSkills(cv)
        keep == {i \in 1..Len(requiredSkills) :
                    \E k \in 1..Len(applicantSkills) :
                        Includes(ToLowerCase(applicantSkills[k]),
                                 ToLowerCase(Val(requiredSkills[i])))}
    IN  [i \in 1..Len(FilterSeq(requiredSkills, keep, 1)) |->
            Val(FilterSeq(requiredSkills, keep, 1)[i])]

\* The calls that raise a TypeError inside analyzeApplication: cv.experience on
\* a null cv (cv_content is a nullable column), and req.toLowerCase() on a null
\* element of requirements, reached as soon as the applicant has one skill.
AnalysisThrows(cvContent, jobDescription) ==
    IF ~IsSome(cvContent) THEN TRUE
    ELSE /\ \E i \in 1..Len(RequiredSkills(jobDescription)) :
                ~IsSome(RequiredSkills(jobDescription)[i])
         /\ ApplicantSkills(Val(cvContent)) # <<>>

EducationHas(cv, word) ==
    IsSome(cv.education) /\ Includes(ToLowerCase(Val(cv.education)), word)

Achievements(cv) == IF IsSome(cv.achievements) THEN Val(cv.achievements) ELSE <<>>

ExperienceLine(cv) ==
    IF evaluateExperience(cv) >= 20
    THEN <<CheckMark, " Excellent relevant experience: ">> \o Val(cv.experience)
             \o <<" with strong background in required areas">>
    ELSE IF evaluateExperience(cv) >= 15
    THEN <<CheckMark, " Good experience level with some relevant background">>
    ELSE <<WarnMark, " Limited relevant experience detected">>

\* A variant that counts the skills of the applicant, matched or not.
SkillsScoreOfApplicantSkills(cv, jobDescription) ==
    Min(MaxSkillsPoints, Len(ApplicantSkills(cv)) * PointsPerSkill)

SkillsScore(cv, jobDescription) ==
    Min(MaxSkillsPoints, Len(MatchedSkills(cv, jobDescription)) * PointsPerSkill)

SkillsLine(cv, jobDescription) ==
    LET matchedSkills == MatchedSkills(cv, jobDescription)
    IN  IF Len(matchedSkills) > 0
        THEN <<CheckMark, " ">> \o NumToStr(Len(matchedSkills))
                 \o <<" matching skill(s): ">> \o Join(matchedSkills, <<",", " ">>)
        ELSE <<WarnMark, " No matching skills found">>

\* A variant that tests cv.education without toLowerCase.
EducationScoreCaseSensitive(cv) ==
    IF IsSome(cv.education) /\ Includes(Val(cv.education), <<"m","a","s","t","e","r">>)
    THEN MasterPoints
    ELSE IF IsSome(cv.education)
            /\ Includes(Val(cv.education), <<"b","a","c","h","e","l","o","r">>)
    THEN BachelorPoints
    ELSE 0

EducationScore(cv) ==
    IF EducationHas(cv, <<"m","a","s","t","e","r">>) THEN MasterPoints
    ELSE IF EducationHas(cv, <<"b","a","c","h","e","l","o","r">>) THEN BachelorPoints
    ELSE 0

EducationLine(cv) ==
    IF EducationHas(cv, <<"m","a","s","t","e","r">>)
    THEN <<CheckMark, " Holds a Master's degree">>
    ELSE IF EducationHas(cv, <<"b","a","c","h","e","l","o","r">>)
    THEN <<CheckMark, " Holds a Bachelor's degree">>
    ELSE <<WarnMark, " Education level not clearly specified">>

\* A variant without Math.min.
AchievementsScoreUnclamped(cv) == Len(Achievements(cv)) * PointsPerAchievement

AchievementsScore(cv) ==
    Min(MaxAchievementPoints, Len(Achievements(cv)) * PointsPerAchievement)

AchievementsLine(cv) ==
    IF Len(Achievements(cv)) > 0
    THEN <<CheckMark, " ">> \o NumToStr(Len(Achievements(cv)))
             \o <<" notable achievement(s)">>
    ELSE <<WarnMark, " No achievements mentioned">>

\* A variant that pushes the skills line before the experience line.
ExplanationPointsSkillsFirst(cv, jobDescription) ==
    <<SkillsLine(cv, jobDescription), ExperienceLine(cv),
      EducationLine(cv), AchievementsLine(cv)>>

\* explanationPoints, in the order the lines are pushed
ExplanationPoints(cv, jobDescription) ==
    <<ExperienceLine(cv), SkillsLine(cv, jobDescription),
      EducationLine(cv), AchievementsLine(cv)>>

DimensionScores(cv, jobDescription) ==
    [experience   |-> evaluateExperience(cv),
     skills       |-> SkillsScore(cv, jobDescription),
     education    |-> EducationScore(cv),
     achievements |-> AchievementsScore(cv)]

\* A variant that leaves the education points out of the total.
analyzeApplicationSkipsEducation(cvContent, jobDescription) ==
    LET cv == Val(cvContent)
        d  == DimensionScores(cv, jobDescription)
    IN  [score       |-> d.experience + d.skills + d.achievements,
         explanation |-> Join(ExplanationPoints(cv, jobDescription), <<"\n">>)]

\* analyzeApplication(cvContent, jobDescription) when it does not throw
analyzeApplication(cvContent, jobDescription) ==
    LET cv == Val(cvContent)
        d  == DimensionScores(cv, jobDescription)
    IN  [score       |-> d.experience + d.skills + d.education + d.achievements,
         explanation |-> Join(ExplanationPoints(cv, jobDescription), <<"\n">>)]

----------------------------------------------------------------------------
(* Bounds of the model *)

\* rows the applications table can hold (ids 1..MaxApps)
MaxApps == 2
\* ranking requests over a run, when they follow one another
MaxRankCalls == 2
\* ranking requests over a run, when they may overlap
MaxOverlappingCalls == 2
\* job updates over a run
MaxJobUpdates == 1
\* status updates over a run
MaxStatusUpdates == 1

\* request slots: requests in flight at the same time
RankCallers == {1, 2}
Submitters == {1, 2}

----------------------------------------------------------------------------
(* Data *)

JobKeys == {"software-engineer", "data-scientist"}
\* a key that is in no row of job_descriptions
RequestKeys == JobKeys \cup {"no-such-job"}

\* insertDefaultData: the rows of job_descriptions after start-up (one
\* requirement of each default job is kept), is_active defaulting to true
DefaultJobs ==
    [k \in JobKeys |->
        [is_active |-> TRUE,
         requirements |->
            IF k = "software-engineer"
            THEN <<Some(<<"D","a","t","a","b","a","s","e"," ",
                          "k","n","o","w","l","e","d","g","e">>)>>
            ELSE <<Some(<<"S","Q","L"," ","p","r","o","f","i","c","i","e","n","c","y">>)>>]]

\* requirements a PUT /api/jobs/:jobKey body may carry; the handler validates
\* nothing, so an array holding null is stored as it is
RequirementChoices ==
    {<<Some(<<"S","Q","L">>), Some(<<"D","o","c","k","e","r">>)>>,
     <<None>>}

\* extractCVContent: skillSets
SkillSets ==
    <<<< <<"J","a","v","a","S","c","r","i","p","t">>, <<"R","e","a","c","t">>,
         <<"N","o","d","e",".","j","s">>, <<"S","Q","L">>, <<"G","i","t">>,
         <<"C","S","S">> >>,
      << <<"P","y","t","h","o","n">>, <<"D","j","a","n","g","o">>,
         <<"P","o","s","t","g","r","e","S","Q","L">>, <<"D","o","c","k","e","r">>,
         <<"A","W","S">>, <<"L","i","n","u","x">> >> >>

SeniorSkills ==
    << <<"L","e","a","d","e","r","s","h","i","p">>,
       <<"M","e","n","t","o","r","i","n","g">>,
       <<"A","r","c","h","i","t","e","c","t","u","r","e">> >>

\* the outcomes of the two Math.random() draws and of the file-name test that
\* the model explores
SkillSetChoices == {1}
YearsChoices == {3, 6}
SeniorChoices == {FALSE}

\* extractCVContent(fileBuffer, fileName)
extractCVContent(skillSet, experience, senior) ==
    [skills |-> Some(SkillSets[skillSet] \o (IF senior THEN SeniorSkills ELSE <<>>)),
     experience |-> Some(NumToStr(experience) \o <<" ", "y", "e", "a", "r", "s">>),
     education |-> Some(IF experience > 5
                        THEN <<"M","a","s","t","e","r","'","s"," ","d","e","g","r","e","e">>
                        ELSE <<"B","a","c","h","e","l","o","r","'","s"," ",
                               "d","e","g","r","e","e">>),
     achievements |-> Some(<<"Led successful project implementations",
                             "Improved system performance by 30%",
                             "Collaborated with cross-functional teams",
                             "Mentored junior team members">>)]

Emails == {<<"a","@","x",".","i","o">>, <<"A","@","x",".","i","o">>,
           <<"c","@","x",".","i","o">>}

\* 'APP_' + Math.random().toString(36).substring(2, 8).toUpperCase(): the
\* outcomes the model explores, the n-th row of the table getting the n-th one
AnonymizedIds == <<"APP_4F7K2Q", "APP_9ZT1XB", "APP_M3C8RD", "APP_0HW5YE">>

\* a row of applications as INSERT leaves it: ai_score and ai_explanation
\* NULL, status 'pending', reviewed_at / reviewed_by NULL
NewApplication(jobKey, email, cvContent, anonymizedId) ==
    [job_key |-> jobKey, email |-> email, cv_content |-> cvContent,
     anonymized_id |-> anonymizedId,
     ai_score |-> None, ai_explanation |-> None,
     status |-> "pending", reviewed |-> FALSE]

\* What the applications table may hold when the server starts: CREATE TABLE
\* IF NOT EXISTS keeps the rows of an existing database, and cv_content is a
\* nullable column.
ExistingTables ==
    {<<>>,
     <<NewApplication("software-engineer", <<"b","@","x",".","i","o">>, None,
                      AnonymizedIds[1])>>}

----------------------------------------------------------------------------
(* Profiles and rubrics for the scoring function *)

\* largest number of years in a profile, and longest achievements list
MaxYears == 12
MaxAchievements == 7

\* cv.experience as extractCVContent writes it: `${experience} years`
ExperienceOfYears(y) == Some(NumToStr(y) \o <<" ", "y", "e", "a", "r", "s">>)

\* cv.experience: missing, without a number, or a number of years
ExperienceChoices ==
    {None, Some(<<"s","e","v","e","r","a","l"," ","y","e","a","r","s">>)}
        \cup {ExperienceOfYears(y) : y \in 0..MaxYears}

\* cv.skills: missing, empty, or a list of skills
SkillsChoices ==
    {None, Some(<<>>), Some(SkillSets[1]),
     Some(<< <<"s","q","l">>, <<"D","o","c","k","e","r","f","i","l","e">> >>)}

\* cv.education: missing or a level
EducationChoices ==
    {None,
     Some(<<"M","a","s","t","e","r","'","s"," ","d","e","g","r","e","e">>),
     Some(<<"m","a","s","t","e","r">>),
     Some(<<"B","a","c","h","e","l","o","r","'","s"," ","d","e","g","r","e","e">>),
     Some(<<"b","a","c","h","e","l","o","r">>),
     Some(<<"d","o","c","t","o","r","a","t","e">>),
     Some(<<"n","o","n","e">>),
     Some(<<"u","n","k","n","o","w","n">>)}

\* cv.achievements: missing or a list of n entries
AchievementsChoices ==
    {None} \cup {Some([i \in 1..n |-> "achievement"]) : n \in 0..MaxAchievements}

\* a profile as extractCVContent returns it for 3 years of experience
BaseProfile == extractCVContent(1, 3, FALSE)

\* a profile of 6 years with three skills, a bachelor education and three
\* achievements, and a rubric of two requirements that its skills contain
ExampleProfile ==
    [skills |-> Some(<< <<"j","a","v","a","s","c","r","i","p","t">>,
                        <<"r","e","a","c","t">>, <<"s","q","l">> >>),
     experience |-> ExperienceOfYears(6),
     education |-> Some(<<"b","a","c","h","e","l","o","r">>),
     achievements |-> Some(<<"achievement", "achievement", "achievement">>)]

ExampleRubric ==
    <<Some(<<"J","a","v","a","S","c","r","i","p","t">>), Some(<<"S","Q","L">>)>>

\* profiles with every value of one field, the profiles whose fields are all
\* at one end of their range, and the profile of the example
ScoringProfiles ==
    {ExampleProfile} \cup
    {[BaseProfile EXCEPT !.experience = e] : e \in ExperienceChoices}
    \cup {[BaseProfile EXCEPT !.skills = s] : s \in SkillsChoices}
    \cup {[BaseProfile EXCEPT !.education = e] : e \in EducationChoices}
    \cup {[BaseProfile EXCEPT !.achievements = a] : a \in AchievementsChoices}
    \cup [skills : {None, Some(SkillSets[1])},
          experience : {None, ExperienceOfYears(5), ExperienceOfYears(MaxYears)},
          education : {None, Some(<<"b","a","c","h","e","l","o","r">>),
                       Some(<<"m","a","s","t","e","r">>)},
          achievements : {None, Some(<<"achievement", "achievement">>),
                          Some([i \in 1..MaxAchievements |-> "achievement"])}]

\* requirements of a job: none, those of RequirementChoices, one default, and
\* a list of which SkillSets[1] matches six entries
ScoringRubrics ==
    RequirementChoices
    \cup {<<>>, ExampleRubric,
          DefaultJobs["data-scientist"].requirements,
          <<Some(<<"s","q","l">>), Some(<<"G","I","T">>), Some(<<"c","s","s">>),
            Some(<<"R","e","a","c","t">>), Some(<<"n","o","d","e">>),
            Some(<<"J","a","v","a">>), Some(<<"R","u","s","t">>)>>}

\* the profiles of the tables with several rows
BatchProfiles ==
    {BaseProfile, extractCVContent(1, 6, FALSE),
     [BaseProfile EXCEPT !.skills = None]}

ScoringRow(n, email, cvContent) ==
    NewApplication("software-engineer", email, cvContent, AnonymizedIds[n])

\* the applications table: one row with any profile, three rows of which the
\* first and the last have the same profile, or the row without a profile
ScoringTables ==
    {<<ScoringRow(1, <<"a","@","x",".","i","o">>, Some(p))>> : p \in ScoringProfiles}
    \cup {<<ScoringRow(1, <<"a","@","x",".","i","o">>, Some(p)),
            ScoringRow(2, <<"b","@","x",".","i","o">>, Some(q)),
            ScoringRow(3, <<"c","@","x",".","i","o">>, Some(p))>> :
                p \in BatchProfiles, q \in BatchProfiles}
    \cup {<<ScoringRow(1, <<"a","@","x",".","i","o">>, None)>>}

----------------------------------------------------------------------------
(* State *)

VARIABLES
    jobs,          \* job_descriptions: job_key -> row
    applications,  \* applications: sequence of rows, the SERIAL id is the index
    audit_logs,    \* audit_logs: action -> number of rows with that action
    rank,          \* POST /api/applications/rank requests, one per caller slot
    sub,           \* POST /api/applications requests, one per submitter slot
    calls,         \* requests issued so far, by kind
    writes,        \* history: id -> number of UPDATEs of ai_score executed
    delta,         \* history: job_key -> "ranked" once a ranking request of
                   \*   the job has answered 200 and no row was inserted for
                   \*   the job since that request read its rows
    threw,         \* history: ids whose analysis has thrown
    aborted,       \* history: the entries persisted by requests that then
                   \*   ended in the catch block
    uploadedCVs,   \* server.js: the in-memory store of uploaded CVs
    cvRank         \* server.js: the POST /rank request

vars == <<jobs, applications, audit_logs, rank, sub, calls,
          writes, delta, threw, aborted, uploadedCVs, cvRank>>

AuditActions == {"AI_RANK", "UPDATE", "ACCEPTED", "REJECTED"}

IdleRank ==
    [pc |-> "idle", jobKey |-> "", jobDescription |-> None, applications |-> <<>>,
     i |-> 1, rankedApplications |-> <<>>, res |-> None, failed |-> None]

IdleSub == [pc |-> "idle", jobKey |-> "", email |-> <<>>, res |-> None]

IdleCVRank == [pc |-> "idle", i |-> 1, results |-> <<>>, ranked |-> None]

Init ==
    /\ jobs = DefaultJobs
    /\ applications \in ExistingTables
    /\ audit_logs = [a \in AuditActions |-> 0]
    /\ rank = [c \in RankCallers |-> IdleRank]
    /\ sub = [s \in Submitters |-> IdleSub]
    /\ calls = [rank |-> 0, job |-> 0, status |-> 0]
    /\ writes = [id \in 1..MaxApps |-> 0]
    /\ delta = [k \in JobKeys |-> "unknown"]
    /\ threw = {}
    /\ aborted = {}
    /\ uploadedCVs = <<>>
    /\ cvRank = IdleCVRank

Ids == 1..Len(applications)

\* logAuditEvent
logAuditEvent(action) == [audit_logs EXCEPT ![action] = @ + 1]

----------------------------------------------------------------------------
(* POST /api/applications *)

\* the rows of the duplicate check: same job_key, email = email.toLowerCase()
DuplicateRows(jobKey, email) ==
    {id \in Ids : /\ applications[id].job_key = jobKey
                  /\ applications[id].email = ToLowerCase(email)}

\* rows that requests past their duplicate check are about to insert
PendingInserts == Cardinality({s \in Submitters : sub[s].pc = "insert"})

\* from the request to the duplicate check: 404 for a job that is missing or
\* inactive, 409 for a duplicate, otherwise on to the insert
SubmitCheck(s, jobKey, email) ==
    /\ sub[s].pc = "idle"
    /\ Len(applications) + PendingInserts < MaxApps
    /\ sub' = [sub EXCEPT ![s] =
          IF jobKey \notin DOMAIN jobs \/ jobs[jobKey].is_active # TRUE
          THEN [IdleSub EXCEPT !.res = Some(404)]
          ELSE IF DuplicateRows(jobKey, email) # {}
          THEN [IdleSub EXCEPT !.res = Some(409)]
          ELSE [pc |-> "insert", jobKey |-> jobKey, email |-> email, res |-> None]]
    /\ UNCHANGED <<uploadedCVs, cvRank>>
    /\ UNCHANGED <<jobs, applications, audit_logs, rank, calls,
                   writes, delta, threw, aborted>>

\* extractCVContent, the INSERT and the 201 response
SubmitInsert(s, skillSet, experience, senior) ==
    /\ sub[s].pc = "insert"
    /\ applications' = Append(applications,
          NewApplication(sub[s].jobKey, ToLowerCase(sub[s].email),
                         Some(extractCVContent(skillSet, experience, senior)),
                         AnonymizedIds[Len(applications) + 1]))
    /\ sub' = [sub EXCEPT ![s] = [IdleSub EXCEPT !.res = Some(201)]]
    /\ delta' = [delta EXCEPT ![sub[s].jobKey] = "unknown"]
    /\ UNCHANGED <<uploadedCVs, cvRank>>
    /\ UNCHANGED <<jobs, audit_logs, rank, calls, writes, threw, aborted>>

----------------------------------------------------------------------------
(* PUT /api/jobs/:jobKey *)

UpdateJob(jobKey, is_active, requirements) ==
    /\ calls.job < MaxJobUpdates
    /\ calls' = [calls EXCEPT !.job = @ + 1]
    /\ IF jobKey \in DOMAIN jobs
       THEN /\ jobs' = [jobs EXCEPT ![jobKey] =
                   [is_active |-> is_active, requirements |-> requirements]]
            /\ audit_logs' = logAuditEvent("UPDATE")
       ELSE UNCHANGED <<jobs, audit_logs>>
    /\ UNCHANGED <<uploadedCVs, cvRank>>
    /\ UNCHANGED <<applications, rank, sub, writes, delta, threw, aborted>>

----------------------------------------------------------------------------
(* PUT /api/applications/:id/status *)

\* status is "accepted" or "rejected"
UpdateStatus(id, status) ==
    /\ calls.status < MaxStatusUpdates
    /\ calls' = [calls EXCEPT !.status = @ + 1]
    /\ IF id \in Ids
       THEN /\ applications' = [applications EXCEPT ![id].status = status,
                                                    ![id].reviewed = TRUE]
            /\ audit_logs' = logAuditEvent(IF status = "accepted"
                                            THEN "ACCEPTED" ELSE "REJECTED")
       ELSE UNCHANGED <<applications, audit_logs>>
    /\ UNCHANGED <<uploadedCVs, cvRank>>
    /\ UNCHANGED <<jobs, rank, sub, writes, delta, threw, aborted>>

----------------------------------------------------------------------------
(* POST /api/applications/rank *)

\* Variants of the query with one condition of its WHERE clause left out.
PendingAnyScore(jobKey) ==
    {id \in Ids : /\ applications[id].job_key = jobKey
                  /\ applications[id].status = "pending"}

UnscoredAnyStatus(jobKey) ==
    {id \in Ids : /\ applications[id].job_key = jobKey
                  /\ applications[id].ai_score = None}

\* SELECT * FROM applications
\*   WHERE job_key = $1 AND status = 'pending' AND ai_score IS NULL
PendingUnscored(jobKey) ==
    {id \in Ids : /\ applications[id].job_key = jobKey
                  /\ applications[id].status = "pending"
                  /\ applications[id].ai_score = None}

\* The query has no ORDER BY, so the rows come back in any order.
RowOrders(S) ==
    {o \in [1..Cardinality(S) -> S] : \A a, b \in 1..Cardinality(S) : a # b => o[a] # o[b]}

\* SELECT * FROM job_descriptions WHERE job_key = $1
JobRows(jobKey) == IF jobKey \in DOMAIN jobs THEN <<jobs[jobKey]>> ELSE <<>>

\* A variant of the UPDATE that sets ai_explanation and leaves ai_score alone.
SaveExplanationOnly(id, analysis) ==
    [applications EXCEPT ![id].ai_explanation = Some(analysis.explanation)]

\* A variant of the UPDATE that also marks the row as reviewed.
SaveScoreAndReview(id, analysis) ==
    [applications EXCEPT ![id].ai_score = Some(analysis.score),
                         ![id].ai_explanation = Some(analysis.explanation),
                         ![id].status = "reviewed",
                         ![id].reviewed = TRUE]

\* UPDATE applications SET ai_score = $1, ai_explanation = $2 WHERE id = $3
SaveScore(id, analysis) ==
    [applications EXCEPT ![id].ai_score = Some(analysis.score),
                         ![id].ai_explanation = Some(analysis.explanation)]

\* A variant of the sort with the comparator (a, b) => a.score - b.score.
RECURSIVE SortByScoreAscending(_)
SortByScoreAscending(entries) ==
    IF entries = <<>> THEN <<>>
    ELSE LET last == entries[Len(entries)]
             rest == SortByScoreAscending(SubSeq(entries, 1, Len(entries) - 1))
             n == Cardinality({k \in 1..Len(rest) : rest[k].score <= last.score})
         IN  SubSeq(rest, 1, n) \o <<last>> \o SubSeq(rest, n + 1, Len(rest))

\* rankedApplications.sort((a, b) => b.score - a.score): Array.prototype.sort
\* is stable, so entries of equal score keep their order
RECURSIVE SortByScore(_)
SortByScore(entries) ==
    IF entries = <<>> THEN <<>>
    ELSE LET last == entries[Len(entries)]
             rest == SortByScore(SubSeq(entries, 1, Len(entries) - 1))
             n == Cardinality({k \in 1..Len(rest) : rest[k].score >= last.score})
         IN  SubSeq(rest, 1, n) \o <<last>> \o SubSeq(rest, n + 1, Len(rest))

\* From the request to the job query: 404 when no row has the job key.
\* A request takes the first free slot. alone: it starts only while no other
\* ranking request is in flight.
RankJob(c, jobKey, alone) ==
    LET limit == IF alone THEN MaxRankCalls ELSE MaxOverlappingCalls IN
    /\ rank[c].pc \in {"idle", "done"}
    /\ \A d \in RankCallers : d < c => rank[d].pc \notin {"idle", "done"}
    /\ alone => \A d \in RankCallers : rank[d].pc \in {"idle", "done"}
    /\ calls.rank < limit
    /\ calls' = [calls EXCEPT !.rank = @ + 1]
    /\ rank' = [rank EXCEPT ![c] =
          IF JobRows(jobKey) = <<>>
          THEN [IdleRank EXCEPT !.pc = "done", !.jobKey = jobKey, !.res = Some(404)]
          ELSE [IdleRank EXCEPT !.pc = "select", !.jobKey = jobKey,
                                !.jobDescription = Some(JobRows(jobKey)[1])]]
    /\ UNCHANGED <<uploadedCVs, cvRank>>
    /\ UNCHANGED <<jobs, applications, audit_logs, sub,
                   writes, delta, threw, aborted>>

\* The query for the pending applications: 400 when it returns no row.
RankSelect(c) ==
    /\ rank[c].pc = "select"
    /\ IF PendingUnscored(rank[c].jobKey) = {}
       THEN /\ rank' = [rank EXCEPT ![c].pc = "done", ![c].res = Some(400)]
            /\ UNCHANGED delta
       ELSE /\ \E o \in RowOrders(PendingUnscored(rank[c].jobKey)) :
                  rank' = [rank EXCEPT ![c].pc = "loop",
                      ![c].applications =
                          [k \in 1..Len(o) |->
                              [id |-> o[k],
                               anonymized_id |-> applications[o[k]].anonymized_id,
                               cv_content |-> applications[o[k]].cv_content]]]
            /\ delta' = [delta EXCEPT ![rank[c].jobKey] = "ranking"]
    /\ UNCHANGED <<uploadedCVs, cvRank>>
    /\ UNCHANGED <<jobs, applications, audit_logs, sub, calls,
                   writes, threw, aborted>>

\* A variant of the iteration in which the total is not reset between two
\* analyses of a request: each score starts from the one before it.
RankScoreCarriesTotal(c) ==
    /\ rank[c].pc = "loop"
    /\ rank[c].i <= Len(rank[c].applications)
    /\ LET app == rank[c].applications[rank[c].i]
           jobDescription == Val(rank[c].jobDescription)
           ranked == rank[c].rankedApplications
           carried == IF ranked = <<>> THEN 0 ELSE ranked[Len(ranked)].score
       IN  /\ ~AnalysisThrows(app.cv_content, jobDescription)
           /\ LET analysis ==
                      [analyzeApplication(app.cv_content, jobDescription)
                          EXCEPT !.score = @ + carried]
              IN  /\ applications' = SaveScore(app.id, analysis)
                  /\ rank' = [rank EXCEPT ![c].i = @ + 1,
                         ![c].rankedApplications = Append(@,
                             [id |-> app.id, anonymized_id |-> app.anonymized_id,
                              score |-> analysis.score,
                              explanation |-> analysis.explanation])]
           /\ writes' = [writes EXCEPT ![app.id] = @ + 1]
    /\ UNCHANGED <<uploadedCVs, cvRank>>
    /\ UNCHANGED <<jobs, audit_logs, sub, calls, delta, threw, aborted>>

\* One iteration of the loop that completes: analyzeApplication, the UPDATE and
\* the push onto rankedApplications.
RankScore(c) ==
    /\ rank[c].pc = "loop"
    /\ rank[c].i <= Len(rank[c].applications)
    /\ LET app == rank[c].applications[rank[c].i]
           jobDescription == Val(rank[c].jobDescription)
       IN  /\ ~AnalysisThrows(app.cv_content, jobDescription)
           /\ LET analysis == analyzeApplication(app.cv_content, jobDescription)
              IN  /\ applications' = SaveScore(app.id, analysis)
                  /\ rank' = [rank EXCEPT ![c].i = @ + 1,
                         ![c].rankedApplications = Append(@,
                             [id |-> app.id, anonymized_id |-> app.anonymized_id,
                              score |-> analysis.score,
                              explanation |-> analysis.explanation])]
           /\ writes' = [writes EXCEPT ![app.id] = @ + 1]
    /\ UNCHANGED <<uploadedCVs, cvRank>>
    /\ UNCHANGED <<jobs, audit_logs, sub, calls, delta, threw, aborted>>

\* Variants of the failing iteration: one marks the row that failed, the other
\* undoes the UPDATEs the request has made.
RankThrowMarksRow(c) ==
    /\ rank[c].pc = "loop"
    /\ rank[c].i <= Len(rank[c].applications)
    /\ LET app == rank[c].applications[rank[c].i]
       IN  /\ AnalysisThrows(app.cv_content, Val(rank[c].jobDescription))
           /\ rank' = [rank EXCEPT ![c].pc = "done", ![c].res = Some(500),
                                   ![c].failed = Some(app.id)]
           /\ applications' = [applications EXCEPT ![app.id].status = "failed"]
    /\ delta' = [delta EXCEPT ![rank[c].jobKey] = "unknown"]
    /\ threw' = threw \cup {rank[c].applications[rank[c].i].id}
    /\ aborted' = aborted \cup
           {rank[c].rankedApplications[k] : k \in 1..Len(rank[c].rankedApplications)}
    /\ UNCHANGED <<uploadedCVs, cvRank>>
    /\ UNCHANGED <<jobs, audit_logs, sub, calls, writes>>

RankThrowRollsBack(c) ==
    /\ rank[c].pc = "loop"
    /\ rank[c].i <= Len(rank[c].applications)
    /\ LET app == rank[c].applications[rank[c].i]
           done == {rank[c].rankedApplications[k].id :
                        k \in 1..Len(rank[c].rankedApplications)}
       IN  /\ AnalysisThrows(app.cv_content, Val(rank[c].jobDescription))
           /\ rank' = [rank EXCEPT ![c].pc = "done", ![c].res = Some(500),
                                   ![c].failed = Some(app.id)]
           /\ applications' =
                  [id \in DOMAIN applications |->
                      IF id \in done
                      THEN [applications[id] EXCEPT !.ai_score = None,
                                                    !.ai_explanation = None]
                      ELSE applications[id]]
    /\ delta' = [delta EXCEPT ![rank[c].jobKey] = "unknown"]
    /\ threw' = threw \cup {rank[c].applications[rank[c].i].id}
    /\ aborted' = aborted \cup
           {rank[c].rankedApplications[k] : k \in 1..Len(rank[c].rankedApplications)}
    /\ UNCHANGED <<uploadedCVs, cvRank>>
    /\ UNCHANGED <<jobs, audit_logs, sub, calls, writes>>

\* One iteration of the loop in which analyzeApplication throws: the catch
\* block of the handler answers 500 and the loop is over.
RankThrow(c) ==
    /\ rank[c].pc = "loop"
    /\ rank[c].i <= Len(rank[c].applications)
    /\ LET app == rank[c].applications[rank[c].i]
       IN  /\ AnalysisThrows(app.cv_content, Val(rank[c].jobDescription))
           /\ rank' = [rank EXCEPT ![c].pc = "done", ![c].res = Some(500),
                                   ![c].failed = Some(app.id)]
    /\ delta' = [delta EXCEPT ![rank[c].jobKey] = "unknown"]
    /\ threw' = threw \cup {rank[c].applications[rank[c].i].id}
    /\ aborted' = aborted \cup
           {rank[c].rankedApplications[k] : k \in 1..Len(rank[c].rankedApplications)}
    /\ UNCHANGED <<uploadedCVs, cvRank>>
    /\ UNCHANGED <<jobs, applications, audit_logs, sub, calls, writes>>

\* After the loop: the sort, the audit row and the 200 response.
RankFinish(c) ==
    /\ rank[c].pc = "loop"
    /\ rank[c].i > Len(rank[c].applications)
    /\ rank' = [rank EXCEPT ![c].pc = "done", ![c].res = Some(200),
                            ![c].rankedApplications = SortByScore(@)]
    /\ audit_logs' = logAuditEvent("AI_RANK")
    /\ delta' = [delta EXCEPT ![rank[c].jobKey] =
                    IF @ = "ranking" THEN "ranked" ELSE @]
    /\ UNCHANGED <<uploadedCVs, cvRank>>
    /\ UNCHANGED <<jobs, applications, sub, calls, writes, threw, aborted>>

----------------------------------------------------------------------------
(* server.js and utils/rank.js: upload of CV files and POST /rank *)

\* files the store can hold
MaxUploads == 3

LowerLetters ==
    {"a", "b", "c", "d", "e", "f", "g", "h", "i", "j", "k", "l", "m",
     "n", "o", "p", "q", "r", "s", "t", "u", "v", "w", "x", "y", "z"}

\* the character classes [a-zA-Z], [a-zA-Z0-9._%+-] and [a-zA-Z0-9.-]
IsLetter(c) == LowerChar(c) \in LowerLetters
IsLocalChar(c) == IsLetter(c) \/ c \in Digits \/ c \in {".", "_", "%", "+", "-"}
IsDomainChar(c) == IsLetter(c) \/ c \in Digits \/ c \in {".", "-"}

InClass(c, class) ==
    CASE class = "letter" -> IsLetter(c)
      [] class = "local"  -> IsLocalChar(c)
      [] class = "domain" -> IsDomainChar(c)

\* the last position of the longest run of characters of a class that starts
\* at position from (from - 1 when the run is empty)
RunEnd(text, from, class) ==
    CHOOSE k \in (from - 1)..Len(text) :
        /\ \A j \in from..k : InClass(text[j], class)
        /\ (k = Len(text) \/ ~InClass(text[k + 1], class))

\* /[a-zA-Z0-9._%+-]+@[a-zA-Z0-9.-]+\.[a-zA-Z]{2,}/ tried at position s: the
\* last position of the match, 0 when there is none. The local part is the run
\* up to '@'; the domain is taken as long as a dot and two letters follow it.
EmailMatchEnd(text, s) ==
    LET at == RunEnd(text, s, "local") + 1
    IN  IF at = s \/ at > Len(text) \/ text[at] # "@" THEN 0
        ELSE LET r == RunEnd(text, at + 1, "domain")
                 dots == {q \in (at + 2)..(r - 2) :
                             /\ text[q] = "."
                             /\ IsLetter(text[q + 1])
                             /\ IsLetter(text[q + 2])}
             IN  IF dots = {} THEN 0
                 ELSE RunEnd(text, 1 + (CHOOSE q \in dots : \A o \in dots : o <= q),
                             "letter")

\* extractEmail(text)
extractEmail(text) ==
    LET starts == {s \in 1..Len(text) : EmailMatchEnd(text, s) > 0}
    IN  IF starts = {} THEN <<"unknown@example.com">>
        ELSE LET s == CHOOSE s \in starts : \A o \in starts : s <= o
             IN  SubSeq(text, s, EmailMatchEnd(text, s))

\* results.sort((a, b) => b.explanation.length - a.explanation.length)
RECURSIVE SortByExplanationLength(_)
SortByExplanationLength(entries) ==
    IF entries = <<>> THEN <<>>
    ELSE LET last == entries[Len(entries)]
             rest == SortByExplanationLength(SubSeq(entries, 1, Len(entries) - 1))
             n == Cardinality({k \in 1..Len(rest) :
                     Len(rest[k].explanation) >= Len(last.explanation)})
         IN  SubSeq(rest, 1, n) \o <<last>> \o SubSeq(rest, n + 1, Len(rest))

\* uploaded files: the original name and the text of the file
CVFiles ==
    {[filename |-> "jane_doe_cv.txt",
      content |-> <<"J","a","n","e"," ","j",".","d","@","m",".","c","o",".","u","k",
                    ","," ","S","Q","L">>],
     [filename |-> "cv.txt",
      content |-> <<"S","Q","L"," ","@"," ","5","y">>]}

\* answers of the chat completion
Explanations == {<<"f","i","t">>, <<"s","t","r","o","n","g">>}

\* POST /upload: every file of the request is pushed onto the store
Upload(files) ==
    /\ Len(uploadedCVs) + Len(files) <= MaxUploads
    /\ uploadedCVs' = uploadedCVs \o files
    /\ UNCHANGED <<jobs, applications, audit_logs, rank, sub, calls,
                   writes, delta, threw, aborted, cvRank>>

\* POST /rank: the call of rankCVs(uploadedCVs, jobDescription)
RankCVsStart ==
    /\ cvRank.pc \in {"idle", "done"}
    /\ cvRank' = [IdleCVRank EXCEPT !.pc = "loop"]
    /\ UNCHANGED <<jobs, applications, audit_logs, rank, sub, calls,
                   writes, delta, threw, aborted, uploadedCVs>>

\* one iteration of rankCVs: the awaited completion, then
\* results.push({...cv, explanation, email: extractEmail(cv.content)})
RankCVsStep(explanation) ==
    /\ cvRank.pc = "loop"
    /\ cvRank.i <= Len(uploadedCVs)
    /\ LET cv == uploadedCVs[cvRank.i]
       IN  cvRank' = [cvRank EXCEPT !.i = @ + 1,
               !.results = Append(@,
                   [filename |-> cv.filename, content |-> cv.content,
                    explanation |-> explanation,
                    email |-> extractEmail(cv.content)])]
    /\ UNCHANGED <<jobs, applications, audit_logs, rank, sub, calls,
                   writes, delta, threw, aborted, uploadedCVs>>

\* the sort of rankCVs and res.render('results', { ranked: results })
RankCVsFinish ==
    /\ cvRank.pc = "loop"
    /\ cvRank.i > Len(uploadedCVs)
    /\ cvRank' = [cvRank EXCEPT !.pc = "done",
                      !.ranked = Some(SortByExplanationLength(cvRank.results))]
    /\ UNCHANGED <<jobs, applications, audit_logs, rank, sub, calls,
                   writes, delta, threw, aborted, uploadedCVs>>

----------------------------------------------------------------------------
(* Specifications *)

\* submissions through the request slots of a set
Submission(slots) ==
    \/ \E s \in slots, jobKey \in RequestKeys, email \in Emails :
           SubmitCheck(s, jobKey, email)
    \/ \E s \in slots, skillSet \in SkillSetChoices,
          experience \in YearsChoices, senior \in SeniorChoices :
           SubmitInsert(s, skillSet, experience, senior)

\* submissions one after the other
Submit == Submission({1})

JobUpdate ==
    \E jobKey \in RequestKeys, is_active \in BOOLEAN,
       requirements \in RequirementChoices :
        UpdateJob(jobKey, is_active, requirements)

StatusUpdate ==
    \E id \in 1..MaxApps, status \in {"accepted", "rejected"} :
        UpdateStatus(id, status)

Ranking(alone) ==
    \/ \E c \in RankCallers, jobKey \in RequestKeys : RankJob(c, jobKey, alone)
    \/ \E c \in RankCallers : RankSelect(c)
    \/ \E c \in RankCallers : RankScore(c)
    \/ \E c \in RankCallers : RankThrow(c)
    \/ \E c \in RankCallers : RankFinish(c)

\* Ranking requests one after the other; submissions, job updates and status
\* updates arrive at any await of a ranking request.
Next == Submit \/ JobUpdate \/ StatusUpdate \/ Ranking(TRUE)

Spec == Init /\ [][Next]_vars

\* Ranking requests that overlap, with submissions and job updates.
NextOverlap == Submit \/ JobUpdate \/ Ranking(FALSE)

SpecOverlap == Init /\ [][NextOverlap]_vars

\* Submissions that overlap, with job updates.
NextSubmit == Submission(Submitters) \/ JobUpdate

SpecSubmit == Init /\ [][NextSubmit]_vars

\* The scoring function on its own: a table of applications with profiles of
\* every shape and a job with any rubric, scored by ranking requests.
InitScoring ==
    /\ \E r \in ScoringRubrics :
          jobs = [k \in JobKeys |-> [is_active |-> TRUE, requirements |-> r]]
    /\ applications \in ScoringTables
    /\ audit_logs = [a \in AuditActions |-> 0]
    /\ rank = [c \in RankCallers |-> IdleRank]
    /\ sub = [s \in Submitters |-> IdleSub]
    /\ calls = [rank |-> 0, job |-> 0, status |-> 0]
    /\ writes = [id \in DOMAIN applications |-> 0]
    /\ delta = [k \in JobKeys |-> "unknown"]
    /\ threw = {}
    /\ aborted = {}
    /\ uploadedCVs = <<>>
    /\ cvRank = IdleCVRank

NextScoring == Ranking(TRUE)

SpecScoring == InitScoring /\ [][NextScoring]_vars

\* server.js: uploads and ranking requests, an upload arriving at any await
\* of rankCVs.
NextUpload ==
    \/ \E f \in CVFiles : Upload(<<f>>)
    \/ \E f \in CVFiles, g \in CVFiles : Upload(<<f, g>>)
    \/ RankCVsStart
    \/ \E explanation \in Explanations : RankCVsStep(explanation)
    \/ RankCVsFinish

SpecUpload == Init /\ [][NextUpload]_vars

----------------------------------------------------------------------------
(* Properties of the ranking request *)

\* the ids of the rows a request has read, and of the entries it has pushed
BatchIds(c) == {rank[c].applications[k].id : k \in 1..Len(rank[c].applications)}
RankedIds(c) ==
    {rank[c].rankedApplications[k].id : k \in 1..Len(rank[c].rankedApplications)}

\* row id belongs to the job, is pending and has no score
IsPendingUnscored(id, jobKey) ==
    /\ applications[id].job_key = jobKey
    /\ applications[id].status = "pending"
    /\ applications[id].ai_score = None

\* the steps of request c, told by the position they leave and reach
StartStep(c) == rank[c].pc \in {"idle", "done"} /\ rank'[c].pc \in {"select", "done"}
                    /\ rank'[c] # rank[c]
SelectStep(c) == rank[c].pc = "select" /\ rank'[c].pc \in {"loop", "done"}
ThrowStep(c) == rank[c].pc = "loop" /\ rank'[c].pc = "done" /\ rank'[c].res = Some(500)

\* the rows a request reads are rows of its job that are pending and unscored
SelectsOnlyPendingUnscored ==
    \A c \in RankCallers :
        SelectStep(c) =>
            \A k \in 1..Len(rank'[c].applications) :
                IsPendingUnscored(rank'[c].applications[k].id, rank[c].jobKey)

\* a score that is stored, and its explanation, stay as they are
ScoreFrozen ==
    \A id \in Ids :
        applications[id].ai_score # None =>
            /\ applications'[id].ai_score = applications[id].ai_score
            /\ applications'[id].ai_explanation = applications[id].ai_explanation

\* C1: with ranking requests one after the other, a request reads only rows of
\* its job that are pending and unscored, no row has its score written more
\* than once, and a stored score and explanation never change.
C1_AtMostOnceScoring ==
    /\ [](\A id \in 1..MaxApps : writes[id] <= 1)
    /\ [][SelectsOnlyPendingUnscored /\ ScoreFrozen]_vars

\* a row was scored by one request and a later request of its job has ended
C1_Witness ==
    \E id \in Ids :
        /\ writes[id] = 1
        /\ calls.rank >= 2
        /\ rank[1].pc = "done"
        /\ rank[1].jobKey = applications[id].job_key
        /\ rank[1].res \in {Some(200), Some(400)}
        /\ id \notin RankedIds(1)

\* C2: with overlapping ranking requests, the score of a row is written once.
C2_WrittenOnceWhenOverlapping ==
    \A id \in 1..MaxApps : writes[id] <= 1

\* C3: a ranking request of a job whose previous ranking request answered 200,
\* no row being inserted for the job since that request read its rows, reads
\* no row, answers 400 and leaves every row as it is.
C3_RankIdempotent ==
    [][\A c \in RankCallers :
          /\ StartStep(c) => applications' = applications /\ writes' = writes
          /\ (SelectStep(c) /\ delta[rank[c].jobKey] = "ranked") =>
                /\ rank'[c].pc = "done"
                /\ rank'[c].res = Some(400)
                /\ rank'[c].rankedApplications = <<>>
                /\ applications' = applications
                /\ writes' = writes]_vars

\* the second of two successive requests of a job with a scored row has ended
C3_Witness ==
    /\ rank[1].pc = "done"
    /\ rank[1].res = Some(400)
    /\ rank[1].jobKey \in JobKeys
    /\ delta[rank[1].jobKey] = "ranked"
    /\ \E id \in Ids : /\ applications[id].job_key = rank[1].jobKey
                       /\ writes[id] = 1

\* C4: a ranking request of a job that is missing or inactive when it is looked
\* up answers 404 and scores no row.
C4_InactiveJobNotFound ==
    \A c \in RankCallers :
        (/\ rank[c].pc = "done"
         /\ (rank[c].jobDescription = None
                \/ Val(rank[c].jobDescription).is_active # TRUE))
        => (rank[c].res = Some(404) /\ rank[c].rankedApplications = <<>>)

\* the job of the request has no row that is pending and unscored
NoPendingUnscored(jobKey) ==
    \A id \in Ids : ~IsPendingUnscored(id, jobKey)

\* C5: a request that found its job answers 400 exactly when the job has no
\* pending unscored row, and the steps of a request up to a 404 or a 400 write
\* no row of applications, audit_logs or job_descriptions.
C5_EmptyBatchNoSideEffects ==
    [][\A c \in RankCallers :
          /\ (StartStep(c) \/ SelectStep(c)) =>
                /\ applications' = applications
                /\ audit_logs' = audit_logs
                /\ jobs' = jobs
                /\ writes' = writes
          /\ StartStep(c) =>
                (rank'[c].res = Some(404) <=> rank'[c].jobKey \notin DOMAIN jobs)
          /\ SelectStep(c) =>
                /\ rank'[c].res = Some(400) <=> NoPendingUnscored(rank[c].jobKey)
                /\ rank'[c].res = Some(400) <=> rank'[c].pc = "done"]_vars

\* a request answered 400 for a job that has applications
C5_Witness ==
    /\ rank[1].pc = "done"
    /\ rank[1].res = Some(400)
    /\ \E id \in Ids : applications[id].job_key = rank[1].jobKey

\* C6: when the analysis of one row of a batch throws, the request still scores
\* every row of the batch whose analysis does not throw and does not answer
\* with the error alone.
C6_PartialFailureIsolated ==
    \A c \in RankCallers :
        (rank[c].pc = "done" /\ rank[c].failed # None) =>
            /\ rank[c].res = Some(200)
            /\ \A k \in 1..Len(rank[c].applications) :
                  ~AnalysisThrows(rank[c].applications[k].cv_content,
                                  Val(rank[c].jobDescription))
                      => rank[c].applications[k].id \in RankedIds(c)

\* C7: the iteration that throws writes nothing: the row it was analysing is
\* still unscored and keeps its status, and a request that reads the rows of
\* a job reads every row of the job that is pending and unscored.
C7_FailedCandidateStaysEligible ==
    [][\A c \in RankCallers :
          /\ ThrowStep(c) =>
                LET id == rank[c].applications[rank[c].i].id
                IN  /\ rank'[c].failed = Some(id)
                    /\ applications[id].ai_score = None
                    /\ applications' = applications
                    /\ writes' = writes
          /\ SelectStep(c) =>
                \A id \in Ids :
                    IsPendingUnscored(id, rank[c].jobKey) =>
                        \E k \in 1..Len(rank'[c].applications) :
                            rank'[c].applications[k].id = id]_vars

\* a row whose analysis threw in one request is read again by a later one
C7_Witness ==
    \E id \in threw :
        /\ rank[1].pc = "loop"
        /\ id \in BatchIds(1)
        /\ applications[id].status = "pending"
        /\ applications[id].ai_score = None

\* C8: the scores a request persisted before it ended in the catch block stay
\* as they were written and are written by no later request.
C8_PersistedScoresSurviveAbort ==
    \A e \in aborted :
        /\ applications[e.id].ai_score = Some(e.score)
        /\ applications[e.id].ai_explanation = Some(e.explanation)
        /\ writes[e.id] = 1

\* a request persisted a score and aborted, and a later request of the same
\* job has ended without scoring anything
C8_Witness ==
    \E e \in aborted :
        /\ calls.rank >= 2
        /\ rank[1].pc = "done"
        /\ rank[1].jobKey = applications[e.id].job_key
        /\ rank[1].res # Some(404)
        /\ rank[1].rankedApplications = <<>>

\* C9: when a request ends because the analysis of a row threw, no row of its
\* batch has a score.
C9_MalformedNeverPartiallyApplied ==
    \A c \in RankCallers :
        (rank[c].pc = "done" /\ rank[c].failed # None) =>
            \A id \in BatchIds(c) :
                /\ applications[id].ai_score = None
                /\ applications[id].ai_explanation = None

\* C10: the entries of a 200 response are in descending order of score and
\* are the rows the request read, each once.
C10_RankedDescending ==
    \A c \in RankCallers :
        (rank[c].pc = "done" /\ rank[c].res = Some(200)) =>
            LET r == rank[c].rankedApplications
            IN  /\ \A k \in 1..(Len(r) - 1) : r[k].score >= r[k + 1].score
                /\ Len(r) = Len(rank[c].applications)
                /\ \A k \in 1..Len(rank[c].applications) :
                      Cardinality({m \in 1..Len(r) :
                          r[m].id = rank[c].applications[k].id}) = 1

\* a 200 response whose two entries had to be swapped by the sort
C10_Witness ==
    /\ rank[1].pc = "done"
    /\ rank[1].res = Some(200)
    /\ Len(rank[1].rankedApplications) = 2
    /\ rank[1].rankedApplications[1].score > rank[1].rankedApplications[2].score
    /\ rank[1].rankedApplications[1].id = rank[1].applications[2].id

\* C11: in a 200 response, of two entries with the same score the one whose
\* application was submitted first (the smaller SERIAL id) comes first,
\* whatever the order in which the selection query returned the rows.
C11_EarlierSubmittedFirstOnTie ==
    \A c \in RankCallers :
        (rank[c].pc = "done" /\ rank[c].res = Some(200)) =>
            LET r == rank[c].rankedApplications
            IN  \A k, m \in 1..Len(r) :
                    (k < m /\ r[k].score = r[m].score) => r[k].id < r[m].id

\* a step of a ranking request: no other handler changes the request slots
RankStep == rank' # rank

\* the columns of row id that the ranking request has no statement for
FrameOfRow(row) ==
    [job_key |-> row.job_key, email |-> row.email, cv_content |-> row.cv_content,
     anonymized_id |-> row.anonymized_id,
     status |-> row.status, reviewed |-> row.reviewed]

\* C12: no step of a ranking request, whether the request ends with 200, 400,
\* 404 or 500, changes the status or the review columns of a row (nor its job,
\* email or profile), adds or removes a row, or changes the score of a row
\* other than the one the step has just analysed.
C12_RankNeverMutatesStatus ==
    [][RankStep =>
          /\ Len(applications') = Len(applications)
          /\ \A id \in Ids : FrameOfRow(applications'[id]) = FrameOfRow(applications[id])
          /\ \A id \in Ids :
                applications'[id] # applications[id] =>
                    \E c \in RankCallers :
                        /\ rank[c].pc = "loop"
                        /\ rank[c].i <= Len(rank[c].applications)
                        /\ rank[c].applications[rank[c].i].id = id
                        /\ rank'[c].i = rank[c].i + 1]_vars

\* a row has been scored by a ranking request and accepted by a status update,
\* and the last ranking request ended in the catch block: the row is accepted
C12_Witness ==
    \E id \in Ids :
        /\ applications[id].status = "accepted"
        /\ applications[id].reviewed
        /\ writes[id] = 1
        /\ rank[1].pc = "done"
        /\ rank[1].res = Some(500)

----------------------------------------------------------------------------
(* Properties of the scoring function *)

\* the rows with a stored score; their profile, and the job they were scored
\* against (no job changes while the scoring function is examined)
ScoredIds == {id \in Ids : applications[id].ai_score # None}
ProfileOf(id) == Val(applications[id].cv_content)
JobOf(id) == jobs[applications[id].job_key]

\* the weight of each dimension
Weights == [experience |-> 25, skills |-> 40, education |-> 15, achievements |-> 20]

RECURSIVE SplitLines(_)
SplitLines(s) ==
    IF \A k \in 1..Len(s) : s[k] # "\n" THEN <<s>>
    ELSE LET k == CHOOSE k \in 1..Len(s) :
                      s[k] = "\n" /\ \A j \in 1..(k - 1) : s[j] # "\n"
         IN  <<SubSeq(s, 1, k - 1)>> \o SplitLines(SubSeq(s, k + 1, Len(s)))

StoredLines(id) == SplitLines(Val(applications[id].ai_explanation))

\* the sub-score of a number of years
TierOfYears(y) ==
    IF y >= 6 THEN 25 ELSE IF y >= 4 THEN 20 ELSE IF y >= 2 THEN 15 ELSE 10

\* the fields a ranking entry may carry
EntryFields == {"anonymized_id", "score", "explanation"}

\* C15: an entry of a ranking returned to a caller, by POST /api/applications/rank
\* or by POST /rank (rankCVs), has no field besides the anonymized id, the
\* score and the explanation: no email, no file name, no text of the CV.
C15_EntriesCarryNoIdentity ==
    /\ \A c \in RankCallers :
          rank[c].res = Some(200) =>
              \A k \in 1..Len(rank[c].rankedApplications) :
                  DOMAIN rank[c].rankedApplications[k] \subseteq EntryFields
    /\ cvRank.ranked # None =>
          \A k \in 1..Len(Val(cvRank.ranked)) :
              DOMAIN Val(cvRank.ranked)[k] \subseteq EntryFields

\* C16: for a profile of y years the experience sub-score is 25 from 6 years,
\* 20 from 4, 15 from 2 and 10 below; a profile without a number of years gets
\* 10; and the stored score is that sub-score plus the three others.
C16_ExperienceTiers ==
    \A id \in ScoredIds :
        LET cv == ProfileOf(id)
            d == DimensionScores(cv, JobOf(id))
            rest == d.skills + d.education + d.achievements
            tier == IF \E y \in 0..MaxYears : cv.experience = ExperienceOfYears(y)
                    THEN TierOfYears(CHOOSE y \in 0..MaxYears :
                                         cv.experience = ExperienceOfYears(y))
                    ELSE 10
        IN  /\ evaluateExperience(cv) = tier
            /\ Val(applications[id].ai_score) = tier + rest

\* a profile of 6 years is scored, with 25 points for experience
C16_Witness ==
    \E id \in ScoredIds :
        /\ ProfileOf(id).experience = ExperienceOfYears(6)
        /\ evaluateExperience(ProfileOf(id)) = 25

\* needle is in hay when letter case is ignored
ContainsIgnoringCase(hay, needle) ==
    \E i \in 0..(Len(hay) - Len(needle)) :
        \A j \in 1..Len(needle) : LowerChar(hay[i + j]) = LowerChar(needle[j])

\* the positions of the requirements that some skill of the profile contains
MatchedPositions(cv, jobDescription) ==
    {i \in 1..Len(jobDescription.requirements) :
        \E k \in 1..Len(ApplicantSkills(cv)) :
            ContainsIgnoringCase(ApplicantSkills(cv)[k],
                                 Val(jobDescription.requirements[i]))}

C18_AchievementsClamped ==
    \A id \in ScoredIds :
        LET cv == ProfileOf(id)
            n == IF cv.achievements = None THEN 0 ELSE Len(Val(cv.achievements))
            line == StoredLines(id)[4]
        IN  /\ AchievementsScore(cv) = (IF 4 * n > 20 THEN 20 ELSE 4 * n)
            /\ line[1] = WarnMark <=> n = 0
            /\ line[1] = CheckMark <=> n > 0

\* a profile with six achievements is scored, with 20 points for them
C18_Witness ==
    \E id \in ScoredIds :
        /\ ProfileOf(id).achievements # None
        /\ Len(Val(ProfileOf(id).achievements)) = 6
        /\ AchievementsScore(ProfileOf(id)) = 20

\* the level that cv.education states
EducationLevel(cv) ==
    IF cv.education \in
           {Some(<<"M","a","s","t","e","r","'","s"," ","d","e","g","r","e","e">>),
            Some(<<"m","a","s","t","e","r">>)}
    THEN "master"
    ELSE IF cv.education \in
           {Some(<<"B","a","c","h","e","l","o","r","'","s"," ","d","e","g","r","e","e">>),
            Some(<<"b","a","c","h","e","l","o","r">>)}
    THEN "bachelor"
    ELSE "other"

\* C19: the education sub-score is 15 for a master level, 10 for a bachelor
\* level and 0 for any other level or none, and the third line of the stored
\* explanation is a warning exactly when the sub-score is 0.
C19_EducationLevels ==
    \A id \in ScoredIds :
        LET cv == ProfileOf(id)
            level == EducationLevel(cv)
            line == StoredLines(id)[3]
        IN  /\ EducationScore(cv) = (IF level = "master" THEN 15
                                     ELSE IF level = "bachelor" THEN 10 ELSE 0)
            /\ line[1] = WarnMark <=> level = "other"
            /\ line[1] = CheckMark <=> level # "other"

\* a profile with "Master's degree" is scored, with 15 points for education
C19_Witness ==
    \E id \in ScoredIds :
        /\ ProfileOf(id).education
              = Some(<<"M","a","s","t","e","r","'","s"," ","d","e","g","r","e","e">>)
        /\ EducationScore(ProfileOf(id)) = 15

\* the phrases that tell the dimension of an evidence line
ExperiencePhrases ==
    {" Excellent relevant experience: ",
     " Good experience level with some relevant background",
     " Limited relevant experience detected"}
SkillsPhrases == {" matching skill(s): ", " No matching skills found"}
EducationPhrases ==
    {" Holds a Master's degree", " Holds a Bachelor's degree",
     " Education level not clearly specified"}
AchievementsPhrases == {" notable achievement(s)", " No achievements mentioned"}

HasPhrase(line, phrases) == \E k \in 1..Len(line) : line[k] \in phrases

\* C20: a stored explanation is four lines joined by newlines, the lines of
\* experience, skills, education and achievements in that order, each one
\* opening with the pass mark or the warning mark.
C20_ExplanationOrder ==
    \A id \in ScoredIds :
        LET lines == StoredLines(id)
        IN  /\ Len(lines) = 4
            /\ Val(applications[id].ai_explanation) = Join(lines, <<"\n">>)
            /\ \A k \in 1..4 : lines[k] # <<>> /\ lines[k][1] \in {CheckMark, WarnMark}
            /\ HasPhrase(lines[1], ExperiencePhrases)
            /\ HasPhrase(lines[2], SkillsPhrases)
            /\ HasPhrase(lines[3], EducationPhrases)
            /\ HasPhrase(lines[4], AchievementsPhrases)
            /\ \A k \in 1..4 :
                  Cardinality({P \in {ExperiencePhrases, SkillsPhrases,
                                      EducationPhrases, AchievementsPhrases} :
                                  HasPhrase(lines[k], P)}) = 1

\* two scored rows of one table, one with four pass lines and one with a
\* warning line
C20_Witness ==
    \E a, b \in ScoredIds :
        /\ \A k \in 1..4 : StoredLines(a)[k][1] = CheckMark
        /\ \E k \in 1..4 : StoredLines(b)[k][1] = WarnMark

\* C21: the example profile scored against the example rubric has the stored
\* score 63, that is 25 + 16 + 10 + 12, and the skills line of its stored
\* explanation counts two matches and names both requirements.
C21_ExampleScores63 ==
    \A id \in ScoredIds :
        (ProfileOf(id) = ExampleProfile /\ JobOf(id).requirements = ExampleRubric) =>
            /\ applications[id].ai_score = Some(63)
            /\ DimensionScores(ProfileOf(id), JobOf(id))
                  = [experience |-> 25, skills |-> 16, education |-> 10,
                     achievements |-> 12]
            /\ StoredLines(id)[2]
                  = <<CheckMark, " ", "2", " matching skill(s): ",
                      "J","a","v","a","S","c","r","i","p","t", ",", " ", "S","Q","L">>

\* the example profile has been scored against the example rubric
C21_Witness ==
    \E id \in ScoredIds :
        /\ ProfileOf(id) = ExampleProfile
        /\ JobOf(id).requirements = ExampleRubric
        /\ rank[1].res = Some(200)

----------------------------------------------------------------------------
(* Properties of requests that run at the same time *)

\* C22: a step that writes the score of a row finds the row pending: a row that
\* a status update has accepted or rejected since the ranking request read it
\* gets no score.
C22_ScoreWrittenOnlyWhilePending ==
    [][\A id \in Ids :
          writes'[id] # writes[id] => applications[id].status = "pending"]_vars

\* C23: with submissions that overlap, the applications table never holds two
\* rows with the same job key and the same lower-cased email.
C23_OneApplicationPerJobAndEmail ==
    \A a, b \in Ids :
        (/\ applications[a].job_key = applications[b].job_key
         /\ ToLowerCase(applications[a].email) = ToLowerCase(applications[b].email))
        => a = b

=============================================================================
